---------------------------- MODULE Spec2Model ----------------------------
(***************************************************************************)
(* Multi-trip dispatch scheduler of src/main.py: solve_multitrip_vrp and   *)
(* run_ortools (specification Spec), and the travel-time estimator         *)
(* get_driving_time with its process-wide cache, as concurrent requests    *)
(* call it (specification SpecEst).                                        *)
(* The OR-Tools routing solver is an external collaborator:                *)
(* a call to it is a nondeterministic choice among the outcomes its        *)
(* constraints allow (any assignment that satisfies the capacity and time  *)
(* dimensions and visits every node without a disjunction), or no          *)
(* solution at all.                                                        *)
(*                                                                         *)
(* Names: the source's Korean identifiers and literals are transliterated: *)
(* "gasoline" and "diesel" are the two values of fuel_type (the diesel     *)
(* family carries kerosene + diesel); "altteul" is the brand served by the *)
(* dedicated vehicle; a vehicle id is the last four digits of its plate    *)
(* number ("7408" is the dedicated vehicle); "depot" is the logistics      *)
(* centre.  Python's 0-based list positions are 1-based here.              *)
(***************************************************************************)
EXTENDS Integers, Sequences, FiniteSets, TLC

VARIABLES
    all_orders,         \* argument all_orders: sequence of OrderItem
    all_vehicles,       \* argument all_vehicles: sequence of VehicleItem
    fuel_type,          \* argument fuel_type
    pc,                 \* position in solve_multitrip_vrp
    pending_orders,     \* sequence of positions in all_orders
    my_vehicles,        \* sequence of positions in all_vehicles
    preferred_vehicle_idx, \* position in my_vehicles, 0 for None
    vehicle_state,      \* per position in my_vehicles: arrival time at depot
    vehicle_workload,   \* per position in my_vehicles: delivered so far
    final_schedule,     \* sequence of routes
    round_num,          \* the round to run next, of "for round_num in range(1, 6)"
    remaining_orders,   \* orders handed to the general pass of the round
    status,             \* "none" until the function returns
    unassigned_orders,  \* skipped_list: sequence of positions in all_orders
    solver_log,         \* history: one record per call of run_ortools
    solver_gave_up,     \* history: a call returned None although solvable
    DIST_CACHE,         \* the process-wide cache of get_driving_time
    naver_api,          \* NAVER_ID and NAVER_SECRET are both configured
    est_pc,             \* per thread: position in get_driving_time
    est_call,           \* per thread: the arguments and the caller of the call
    est_ret,            \* per thread: the value returned
    est_answer          \* per thread: what resolved the call

\* The variables of solve_multitrip_vrp
sched_vars == <<all_orders, all_vehicles, fuel_type, pc, pending_orders,
                my_vehicles, preferred_vehicle_idx, vehicle_state,
                vehicle_workload, final_schedule, round_num, remaining_orders,
                status, unassigned_orders, solver_log, solver_gave_up>>

\* The variables of get_driving_time and of the threads that call it
est_vars == <<DIST_CACHE, naver_api, est_pc, est_call, est_ret, est_answer>>

vars == <<sched_vars, est_vars>>

-----------------------------------------------------------------------------
(* Program constants                                                       *)

DRIVER_START_TIME == 420
LOADING_TIME == 30
WAREHOUSE_CLOSE_TIME == 1080
GASOLINE_UNLOADING_TIME == 40
DIESEL_UNLOADING_TIME == 30
\* range(1, 6): the last round number
MAX_ROUND == 5
\* AddDimension(transit_idx, 1440, 1440, False, "Time"): slack and capacity
TIME_DIM_CAPACITY == 1440
\* get_driving_time: default without coordinates, and the floor
DEFAULT_DRIVING_TIME == 20
MIN_DRIVING_TIME == 5
\* OrderItem defaults
DEFAULT_START_MIN == 420
DEFAULT_END_MIN == 1435
\* int(duration / 60000): the provider answers in milliseconds
MS_PER_MINUTE == 60000

\* The fixed lunch window the specification speaks of.  main.py defines no
\* lunch window; noon to one o'clock stands for it.
LUNCH_START == 720
LUNCH_DURATION == 60

\* The fixed threshold the specification speaks of, below which a value of
\* the matrix is read as kilometers and from which on as minutes.  main.py
\* defines no threshold; a hundred stands for it.
MATRIX_MINUTES_THRESHOLD == 100

\* The safety margin the specification speaks of, kept before the close
\* when the vehicles of a round are selected.  main.py keeps no margin; one
\* minute, the smallest margin there is, stands for it.
SAFETY_MARGIN == 1

-----------------------------------------------------------------------------
(* Bounds of the model                                                     *)

MaxOrders == 2
MaxVehicles == 2
\* The threads of the server's pool that run /optimize at the same time
MaxThreads == 2

-----------------------------------------------------------------------------
(* Generic helpers                                                         *)

Max(a, b) == IF a >= b THEN a ELSE b

Range(s) == {s[i] : i \in 1..Len(s)}

RECURSIVE SumSeq(_)
SumSeq(s) == IF s = <<>> THEN 0 ELSE Head(s) + SumSeq(Tail(s))

\* [x for x in s if P(x)]
Filter(s, P(_)) == SelectSeq(s, P)

\* Insert x into the sorted sequence s after every element with key <= key[x]
RECURSIVE InsertStable(_, _, _)
InsertStable(s, x, key) ==
    IF s = <<>> THEN <<x>>
    ELSE IF key[Head(s)] <= key[x]
         THEN <<Head(s)>> \o InsertStable(Tail(s), x, key)
         ELSE <<x>> \o s

\* list.sort(key=...): a stable sort; key is a function on the elements
RECURSIVE SortBy(_, _)
SortBy(s, key) ==
    IF s = <<>> THEN <<>>
    ELSE InsertStable(SortBy(SubSeq(s, 1, Len(s) - 1), key), s[Len(s)], key)

\* All orderings of the finite set S, as sequences
RECURSIVE Perms(_)
Perms(S) ==
    IF S = {} THEN {<<>>}
    ELSE UNION {{<<x>> \o p : p \in Perms(S \ {x})} : x \in S}

-----------------------------------------------------------------------------
(* The loaded dataset (load_data) and get_driving_time                     *)

depot == "depot"

\* MATRIX_DATA[start][end], in km.  The stored values are whole numbers here:
\* the road from the depot to Far and back, a pair two km apart and a pair
\* whose stored value is large.
MATRIX_DATA ==
    [p \in {<<"depot", "Far">>, <<"Far", "depot">>, <<"Far", "Mid">>,
            <<"Mid", "Far">>} |->
        IF p = <<"Far", "Mid">> THEN 2
        ELSE IF p = <<"Mid", "Far">> THEN 200
        ELSE 70]

\* The pairs for which MATRIX_DATA holds a value that float() rejects
MATRIX_TEXT == {<<"Mid", "depot">>}

\* NODE_INFO: the locations that have coordinates
NODE_INFO == {"depot", "Far", "Mid"}

\* The great-circle distance in km between two locations of NODE_INFO, as the
\* haversine formula of get_driving_time gives it, rounded down.
HaversineKm(a, b) ==
    IF a = b THEN 0
    ELSE IF {a, b} = {"depot", "Mid"} THEN 1
    ELSE 50

\* start_name in MATRIX_DATA and end_name in MATRIX_DATA[start_name]
MatrixHas(a, b) == <<a, b>> \in (DOMAIN MATRIX_DATA) \cup MATRIX_TEXT

\* The matrix has a value for the pair and float() accepts it; otherwise the
\* bare except passes on to the next tier
MatrixUsable(a, b) == MatrixHas(a, b) /\ <<a, b>> \notin MATRIX_TEXT

\* 1st tier: int(dist_val * 1.5), at least 5
MatrixMinutes(a, b) == Max(MIN_DRIVING_TIME, (MATRIX_DATA[<<a, b>>] * 3) \div 2)

\* 4th tier: max(5, int((dist_km / 40) * 60 * 1.3))
HaversineMinutes(a, b) == Max(MIN_DRIVING_TIME, (HaversineKm(a, b) * 195) \div 100)

\* 3rd tier: int(duration / 60000) of the provider's answer in milliseconds
ProviderMinutes(duration) == duration \div MS_PER_MINUTE

\* get_driving_time(start_name, end_name) with DIST_CACHE = cache; api is the
\* minutes the mapping provider answers, or -1 when no credentials are
\* configured or the call fails.
get_driving_time(cache, a, b, api) ==
    IF <<a, b>> \in DOMAIN cache THEN cache[<<a, b>>]
    ELSE IF MatrixUsable(a, b) THEN MatrixMinutes(a, b)
    ELSE IF a \notin NODE_INFO \/ b \notin NODE_INFO THEN DEFAULT_DRIVING_TIME
    ELSE IF api >= 0 THEN api
    ELSE HaversineMinutes(a, b)

\* The tier that resolves a call: "cache", "matrix", "default", "provider"
\* (the request to the mapping provider is sent) or "haversine"
Tier(cache, a, b, keys) ==
    IF <<a, b>> \in DOMAIN cache THEN "cache"
    ELSE IF MatrixUsable(a, b) THEN "matrix"
    ELSE IF a \notin NODE_INFO \/ b \notin NODE_INFO THEN "default"
    ELSE IF keys THEN "provider"
    ELSE "haversine"

\* The scheduler runs in a process without mapping-provider credentials
\* (NAVER_ID is None), so DIST_CACHE stays empty and every call resolves from
\* the matrix, the default or the haversine estimate.
DrivingTime(a, b) == get_driving_time(<<>>, a, b, -1)

-----------------------------------------------------------------------------
(* Inputs                                                                  *)

Order(n, b, g, k, d, s, e, p) ==
    [name |-> n, brand |-> b, gasoline |-> g, kerosene |-> k, diesel |-> d,
     start_min |-> s, end_min |-> e, priority |-> p]

\* The orders a request is drawn from, in a fixed order: a mandatory and a
\* droppable order with the default window, a far one, one for the diesel
\* family alone whose window closes exactly when the first trip can have
\* served it, and a mandatory and a droppable one whose window closes before
\* any vehicle can be there.
OrderChoices ==
    << Order("Near", "altteul", 50, 0, 0, DEFAULT_START_MIN, DEFAULT_END_MIN, 1),
       Order("Near", "altteul", 50, 0, 50, DEFAULT_START_MIN, DEFAULT_END_MIN, 2),
       Order("Far", "SK", 50, 20, 30, DEFAULT_START_MIN, DEFAULT_END_MIN, 2),
       Order("Near", "SK", 0, 0, 50, 420, 500, 2),
       Order("Near", "SK", 50, 0, 0, 420, 450, 1),
       Order("Near", "SK", 50, 0, 50, 420, 450, 2) >>

Vehicle(id, f, c) == [id |-> id, fuel |-> f, capacity |-> c]

VehicleChoices ==
    { Vehicle("7408", "gasoline", 60),
      Vehicle("7400", "gasoline", 100),
      Vehicle("7403", "diesel", 60) }

FuelTypes == {"gasoline", "diesel"}

\* Sequences over 1..n of length at most m that never decrease: a request's
\* orders, up to the order in which the request lists them.
NonDecreasing(n, m) ==
    UNION {{s \in [1..len -> 1..n] : \A i \in 1..(len - 1) : s[i] <= s[i + 1]}
           : len \in 0..m}

\* Sequences of distinct vehicles of length at most m
VehicleLists(m) ==
    UNION {{s \in [1..len -> VehicleChoices] :
                \A i, j \in 1..len : i # j => s[i].id # s[j].id}
           : len \in 0..m}

-----------------------------------------------------------------------------
(* Orders and vehicles of the running call                                 *)

\* amt = o.gasoline if fuel_type == "gasoline" else (o.kerosene + o.diesel)
Amt(o) == IF fuel_type = "gasoline" THEN o.gasoline ELSE o.kerosene + o.diesel

Demand(i) == Amt(all_orders[i])

\* get_order_priority: (0, 0) for priority 1, else (1, distance from depot),
\* compared as tuples; distances are at least 0, so 0 and 1 + distance
\* compare alike.
get_order_priority(i) ==
    IF all_orders[i].priority = 1 THEN 0
    ELSE 1 + DrivingTime(depot, all_orders[i].name)

OrderKey == [i \in 1..Len(all_orders) |-> get_order_priority(i)]

SortOrders(s) == SortBy(s, OrderKey)

IsAltteul(i) == all_orders[i].brand = "altteul"

IsNotAltteul(i) == all_orders[i].brand # "altteul"

MyVehicle(i) == all_vehicles[my_vehicles[i]]

-----------------------------------------------------------------------------
(* run_ortools: the routing problem and the outcomes of the solver         *)

\* service of time_callback: the unloading time, added on arrival at a
\* node other than the depot
Service ==
    IF fuel_type = "gasoline" THEN GASOLINE_UNLOADING_TIME
    ELSE DIESEL_UNLOADING_TIME

\* A window of which only the opening is set
WindowOpenOnly(o, t) == o.start_min <= t

\* time_dim.CumulVar(index).SetRange(order.start_min, order.end_min)
WindowOK(o, t) == o.start_min <= t /\ t <= o.end_min

\* A capacity dimension that bounds nothing
CapacityUnchecked(load, capacity) == TRUE

\* AddDimensionWithVehicleCapacity(cap_idx, 0, [capacities], True, ...)
CapacityOK(load, capacity) == load <= capacity

\* The earliest value of the time dimension at each stop of a route that
\* leaves prevLoc at prevT: transit plus service, waiting for start_min.
RECURSIVE StopTimes(_, _, _)
StopTimes(ords, prevLoc, prevT) ==
    IF ords = <<>> THEN <<>>
    ELSE LET o == all_orders[Head(ords)]
             t == Max(o.start_min,
                      prevT + DrivingTime(prevLoc, o.name) + Service)
         IN  <<t>> \o StopTimes(Tail(ords), o.name, t)

\* The value of the time dimension at the end node of the route
EndTime(ords, start) ==
    IF ords = <<>> THEN start
    ELSE LET ts == StopTimes(ords, depot, start)
             last == all_orders[ords[Len(ords)]]
         IN  ts[Len(ords)] + DrivingTime(last.name, depot)

\* The time dimension admits the route: every stop in its window, every
\* cumul value within the capacity of the dimension.
TimeOK(ords, start) ==
    LET ts == StopTimes(ords, depot, start)
    IN  /\ start <= TIME_DIM_CAPACITY
        /\ \A j \in 1..Len(ords) :
              /\ WindowOK(all_orders[ords[j]], ts[j])
              /\ ts[j] <= TIME_DIM_CAPACITY
        /\ EndTime(ords, start) <= TIME_DIM_CAPACITY

\* A node without a disjunction must be visited: priority 1
Mandatory(i) == all_orders[i].priority = 1

\* The assignments of the orders to vehicles (0: not visited) that the
\* disjunctions and the capacity dimension admit.
Assignments(orders, vehicles) ==
    {asg \in [1..Len(orders) -> 0..Len(vehicles)] :
        /\ \A i \in 1..Len(orders) : Mandatory(orders[i]) => asg[i] # 0
        /\ \A k \in 1..Len(vehicles) :
              CapacityOK(SumSeq([i \in 1..Len(orders) |->
                                   IF asg[i] = k THEN Demand(orders[i]) ELSE 0]),
                         vehicles[k].capacity)}

\* The visiting orders of vehicles 1..k under an assignment that the time
\* dimension admits, one sequence of orders per vehicle.
RECURSIVE RoutesUpTo(_, _, _, _)
RoutesUpTo(k, asg, orders, starts) ==
    IF k = 0 THEN {<<>>}
    ELSE LET mine == {orders[i] : i \in {j \in 1..Len(orders) : asg[j] = k}}
             ok == {p \in Perms(mine) : TimeOK(p, starts[k])}
         IN  {Append(rest, p) : rest \in RoutesUpTo(k - 1, asg, orders, starts),
                                p \in ok}

\* Every solution routing.SolveWithParameters can return: per vehicle the
\* sequence of orders it visits.
Solutions(orders, vehicles, starts) ==
    UNION {RoutesUpTo(Len(vehicles), asg, orders, starts)
           : asg \in Assignments(orders, vehicles)}

\* The outcomes of the solver: a solution, or None when there is no
\* solution or the search finds none within its time limit.
None == [found |-> FALSE, visits |-> <<>>]

SolverOutcomes(sols) ==
    {[found |-> TRUE, visits |-> v] : v \in sols} \cup {None}

\* The path of one vehicle: the depot at the start time, the stops with the
\* value of the time dimension and the demand, the depot at the end time.
Path(ords, start) ==
    LET ts == StopTimes(ords, depot, start)
    IN  <<[order |-> 0, location |-> depot, time |-> start, load |-> 0]>>
        \o [j \in 1..Len(ords) |->
               [order |-> ords[j], location |-> all_orders[ords[j]].name,
                time |-> ts[j], load |-> Demand(ords[j])]]
        \o <<[order |-> 0, location |-> depot,
              time |-> EndTime(ords, start), load |-> 0]>>

\* Every path kept, the depot-to-depot path of an unused vehicle included
UsedRouteAlways(path) == TRUE

\* if len(path) > 2: the path has a stop between the two depot entries
UsedRoute(path) == Len(path) > 2

\* routes of run_ortools: one per vehicle whose path has more than two
\* entries, in the order of the internal index.
RECURSIVE ExtractRoutes(_, _, _)
ExtractRoutes(sol, starts, k) ==
    IF k > Len(sol) THEN <<>>
    ELSE LET path == Path(sol[k], starts[k])
             this == IF UsedRoute(path)
                     THEN <<[internal_idx |-> k,
                             start_time |-> starts[k],
                             end_time |-> EndTime(sol[k], starts[k]),
                             total_load |-> SumSeq([j \in 1..Len(path) |->
                                                      path[j].load]),
                             path |-> path]>>
                     ELSE <<>>
         IN  this \o ExtractRoutes(sol, starts, k + 1)

\* fulfilled_indices, as the orders themselves
Fulfilled(out) ==
    IF out.found THEN UNION {Range(out.visits[k]) : k \in 1..Len(out.visits)}
    ELSE {}

\* run_ortools returns (routes, remaining)
RunRoutes(out, starts) ==
    IF out.found THEN ExtractRoutes(out.visits, starts, 1) ELSE <<>>

\* Nothing left over, whatever was visited
RunRemainingNone(out, orders) == <<>>

\* The orders handed back as they were given, the served ones among them
RunRemainingAll(out, orders) == orders

\* remaining = [o for i, o in enumerate(orders) if i not in fulfilled_indices]
RunRemaining(out, orders) ==
    LET done == Fulfilled(out)
        Left(i) == i \notin done
    IN  Filter(orders, Left)

-----------------------------------------------------------------------------
(* solve_multitrip_vrp                                                     *)

Positions(s) == [i \in 1..Len(s) |-> i]

\* Skipping only when both are empty
SkipOnlyIfBothEmpty(pending, vehicles) == pending = <<>> /\ vehicles = <<>>

\* if not pending_orders or not my_vehicles: return "skipped"
SkipCondition(pending, vehicles) == pending = <<>> \/ vehicles = <<>>

\* A loop of one round more
RoundLimitOneLater(r) == r > MAX_ROUND + 1

\* for round_num in range(1, 6): the loop is over
RoundLimitReached(r) == r > MAX_ROUND

\* Every vehicle of the family, whenever it came back
AvailableWhenever == Positions(my_vehicles)

\* [i for i, t in vehicle_state.items() if t < WAREHOUSE_CLOSE_TIME]
AvailableIndices ==
    LET Open(i) == vehicle_state[i] < WAREHOUSE_CLOSE_TIME
    IN  Filter(Positions(my_vehicles), Open)

\* The vehicles left in the order of their index
SortByWorkloadSkipped(avail) == avail

\* available_indices.sort(key=lambda i: vehicle_workload[i])
SortByWorkload(avail) == SortBy(avail, vehicle_workload)

\* The internal index of the solver taken for the position in my_vehicles
RealIdxIsInternal(avail, internal) == internal

\* real_v_idx = available_indices[r['internal_idx']]
RealIdx(avail, internal) == avail[internal]

\* The arrival with the loading time already added
ArrivalPlusLoading(r) == r.end_time + LOADING_TIME

\* vehicle_state[...] = r['end_time']: the arrival at the depot
ArrivalAtDepot(r) == r.end_time

\* A vehicle leaving the moment it arrives
StartTimeWithoutLoading(i) == vehicle_state[i]

\* The start time of a vehicle: its arrival at the depot plus the loading
StartTime(i) == vehicle_state[i] + LOADING_TIME

\* remaining_orders = remaining_altteul + sk_orders
RemainingAfterPreferred(remaining_altteul, sk_orders) ==
    remaining_altteul \o sk_orders

\* The altteul orders forgotten when the dedicated pass served none
RemainingSkOnly(altteul_orders, sk_orders) == sk_orders

\* remaining_orders = altteul_orders + sk_orders
RemainingWithoutPreferred(altteul_orders, sk_orders) ==
    altteul_orders \o sk_orders

\* A route of run_ortools, tagged with its round and vehicle; real_idx (the
\* position of the vehicle in my_vehicles) and pass are kept beside them.
Tagged(r, real, pass) ==
    [internal_idx |-> r.internal_idx, start_time |-> r.start_time,
     end_time |-> r.end_time, total_load |-> r.total_load, path |-> r.path,
     round |-> round_num, vehicle_id |-> MyVehicle(real).id,
     real_idx |-> real, pass |-> pass]

\* for r in routes: update vehicle_state and vehicle_workload, tag the
\* route, append it to final_schedule.  st holds the three.
RECURSIVE ApplyRoutes(_, _, _, _)
ApplyRoutes(routes, avail, pass, st) ==
    IF routes = <<>> THEN st
    ELSE LET r == Head(routes)
             real == RealIdx(avail, r.internal_idx)
         IN  ApplyRoutes(Tail(routes), avail, pass,
                 [state |-> [st.state EXCEPT ![real] = ArrivalAtDepot(r)],
                  workload |-> [st.workload EXCEPT
                                   ![real] = @ + r.total_load],
                  schedule |-> Append(st.schedule, Tagged(r, real, pass))])

Current == [state |-> vehicle_state, workload |-> vehicle_workload,
            schedule |-> final_schedule]

\* Some vehicle visits an order in the solution
Visits(sol) == \E k \in 1..Len(sol) : sol[k] # <<>>

\* One call of run_ortools: what it was given, whether the solver found a
\* solution, the number of routes returned, and whether some solution of
\* the problem visits an order; and the fleet at the call: vehicle_state,
\* vehicle_workload and the length of final_schedule.
LogEntry(pass, vehicles, starts, orders, out, sols) ==
    [pass |-> pass, round |-> round_num, vehicles |-> vehicles,
     starts |-> starts, orders |-> orders, found |-> out.found,
     nroutes |-> Len(RunRoutes(out, starts)),
     could |-> \E sol \in sols : Visits(sol),
     state |-> vehicle_state, workload |-> vehicle_workload,
     scheduled |-> Len(final_schedule)]

\* The guard never firing
NoProgressNever(routes, remaining, orders) == FALSE

\* if not routes and len(remaining) == len(remaining_orders): break
NoProgress(routes, remaining, orders) ==
    routes = <<>> /\ Len(remaining) = Len(orders)

\* Lines 229-281: the orders and vehicles of the family, the first sort,
\* the dedicated vehicle and the initial state of the fleet.
Partition ==
    /\ pc = "start"
    /\ LET HasDemand(i) == Demand(i) > 0
           OfFamily(i) == all_vehicles[i].fuel = fuel_type
           pending == Filter(Positions(all_orders), HasDemand)
           mine == Filter(Positions(all_vehicles), OfFamily)
           dedicated == {i \in 1..Len(mine) : all_vehicles[mine[i]].id = "7408"}
       IN  IF SkipCondition(pending, mine)
           THEN /\ status' = "skipped"
                /\ pc' = "done"
                /\ UNCHANGED <<pending_orders, my_vehicles,
                               preferred_vehicle_idx, vehicle_state,
                               vehicle_workload, round_num>>
           ELSE /\ pending_orders' = SortOrders(pending)
                /\ my_vehicles' = mine
                /\ preferred_vehicle_idx' =
                       IF fuel_type = "gasoline" /\ dedicated # {}
                       THEN CHOOSE i \in dedicated : \A j \in dedicated : i <= j
                       ELSE 0
                /\ vehicle_state' = [i \in 1..Len(mine) |-> DRIVER_START_TIME]
                /\ vehicle_workload' = [i \in 1..Len(mine) |-> 0]
                /\ round_num' = 1
                /\ pc' = "round"
                /\ UNCHANGED status
    /\ UNCHANGED <<all_orders, all_vehicles, fuel_type, final_schedule,
                   remaining_orders, unassigned_orders, solver_log,
                   solver_gave_up>>
    /\ UNCHANGED est_vars

\* The loop goes on: a round is left, orders are pending, a vehicle is back
\* before the close (lines 283-288)
RoundGoesOn ==
    /\ ~RoundLimitReached(round_num)
    /\ pending_orders # <<>>
    /\ AvailableIndices # <<>>

\* The dedicated pass applies (lines 291-300)
PreferredApplies ==
    /\ fuel_type = "gasoline"
    /\ preferred_vehicle_idx # 0
    /\ preferred_vehicle_idx \in Range(AvailableIndices)
    /\ Filter(pending_orders, IsAltteul) # <<>>

\* Lines 283-288: the loop ends at the head of a round
LoopExit ==
    /\ pc = "round"
    /\ ~RoundGoesOn
    /\ pc' = "finalize"
    /\ UNCHANGED <<all_orders, all_vehicles, fuel_type, pending_orders,
                   my_vehicles, preferred_vehicle_idx, vehicle_state,
                   vehicle_workload, final_schedule, round_num,
                   remaining_orders, status, unassigned_orders, solver_log,
                   solver_gave_up>>
    /\ UNCHANGED est_vars

\* Lines 291-326: the dedicated vehicle alone on the altteul orders
PreferredPass ==
    /\ pc = "round"
    /\ RoundGoesOn
    /\ PreferredApplies
    /\ LET altteul_orders == SortOrders(Filter(pending_orders, IsAltteul))
           sk_orders == Filter(pending_orders, IsNotAltteul)
           preferred_vehicle == <<MyVehicle(preferred_vehicle_idx)>>
           preferred_start == <<StartTime(preferred_vehicle_idx)>>
           sols == Solutions(altteul_orders, preferred_vehicle, preferred_start)
       IN  \E out \in SolverOutcomes(sols) :
             LET routes_preferred == RunRoutes(out, preferred_start)
                 remaining_altteul == RunRemaining(out, altteul_orders)
                 st == ApplyRoutes(routes_preferred, <<preferred_vehicle_idx>>,
                                   "preferred", Current)
             IN  /\ vehicle_state' = st.state
                 /\ vehicle_workload' = st.workload
                 /\ final_schedule' = st.schedule
                 /\ remaining_orders' =
                        IF routes_preferred # <<>>
                        THEN RemainingAfterPreferred(remaining_altteul, sk_orders)
                        ELSE RemainingWithoutPreferred(altteul_orders, sk_orders)
                 /\ solver_log' = Append(solver_log,
                        LogEntry("preferred", <<preferred_vehicle_idx>>,
                                 preferred_start, altteul_orders, out, sols))
                 /\ solver_gave_up' = (solver_gave_up \/ (~out.found /\ sols # {}))
    /\ pc' = "general"
    /\ UNCHANGED <<all_orders, all_vehicles, fuel_type, pending_orders,
                   my_vehicles, preferred_vehicle_idx, round_num, status,
                   unassigned_orders>>
    /\ UNCHANGED est_vars

\* Lines 327-332: no dedicated pass in this round
NoPreferredPass ==
    /\ pc = "round"
    /\ RoundGoesOn
    /\ ~PreferredApplies
    /\ remaining_orders' = pending_orders
    /\ pc' = "general"
    /\ UNCHANGED <<all_orders, all_vehicles, fuel_type, pending_orders,
                   my_vehicles, preferred_vehicle_idx, vehicle_state,
                   vehicle_workload, final_schedule, round_num, status,
                   unassigned_orders, solver_log, solver_gave_up>>
    /\ UNCHANGED est_vars

\* The general pass with every available vehicle, the dedicated one included
GeneralVehiclesAll(orders) == SortByWorkload(AvailableIndices)

\* Lines 338-358: the vehicles of the general pass, by workload, without the
\* dedicated vehicle when an order of another brand is among the orders
GeneralVehicles(orders) ==
    LET sorted == SortByWorkload(AvailableIndices)
        NotPreferred(i) == i # preferred_vehicle_idx
        has_sk_orders == \E j \in 1..Len(orders) : IsNotAltteul(orders[j])
    IN  IF fuel_type = "gasoline" /\ preferred_vehicle_idx # 0 /\ has_sk_orders
        THEN Filter(sorted, NotPreferred)
        ELSE sorted

\* Lines 335-356: the general pass has no vehicle: break
GeneralNoVehicle ==
    /\ pc = "general"
    /\ GeneralVehicles(SortOrders(remaining_orders)) = <<>>
    /\ pc' = "finalize"
    /\ remaining_orders' = SortOrders(remaining_orders)
    /\ UNCHANGED <<all_orders, all_vehicles, fuel_type, pending_orders,
                   my_vehicles, preferred_vehicle_idx, vehicle_state,
                   vehicle_workload, final_schedule, round_num, status,
                   unassigned_orders, solver_log, solver_gave_up>>
    /\ UNCHANGED est_vars

\* Lines 335-415: the general pass: the solver on the remaining orders, the
\* no-progress break, or the routes applied and the next round
GeneralPass ==
    /\ pc = "general"
    /\ LET orders == SortOrders(remaining_orders)
           available_indices == GeneralVehicles(orders)
           current_vehicles == [k \in 1..Len(available_indices) |->
                                   MyVehicle(available_indices[k])]
           current_starts == [k \in 1..Len(available_indices) |->
                                 StartTime(available_indices[k])]
           sols == Solutions(orders, current_vehicles, current_starts)
       IN  /\ available_indices # <<>>
           /\ \E out \in SolverOutcomes(sols) :
                LET routes == RunRoutes(out, current_starts)
                    remaining == RunRemaining(out, orders)
                    st == ApplyRoutes(routes, available_indices, "general",
                                      Current)
                IN  /\ remaining_orders' = orders
                    /\ solver_log' = Append(solver_log,
                           LogEntry("general", available_indices,
                                    current_starts, orders, out, sols))
                    /\ solver_gave_up' =
                           (solver_gave_up \/ (~out.found /\ sols # {}))
                    /\ IF NoProgress(routes, remaining, orders)
                       THEN /\ pc' = "finalize"
                            /\ UNCHANGED <<pending_orders, vehicle_state,
                                           vehicle_workload, final_schedule,
                                           round_num>>
                       ELSE /\ vehicle_state' = st.state
                            /\ vehicle_workload' = st.workload
                            /\ final_schedule' = st.schedule
                            /\ pending_orders' = remaining
                            /\ round_num' = round_num + 1
                            /\ pc' = "round"
    /\ UNCHANGED <<all_orders, all_vehicles, fuel_type, my_vehicles,
                   preferred_vehicle_idx, status, unassigned_orders>>
    /\ UNCHANGED est_vars

\* Lines 417-449: the pending orders are reported as unassigned
Finalize ==
    /\ pc = "finalize"
    /\ unassigned_orders' = pending_orders
    /\ status' = "success"
    /\ pc' = "done"
    /\ UNCHANGED <<all_orders, all_vehicles, fuel_type, pending_orders,
                   my_vehicles, preferred_vehicle_idx, vehicle_state,
                   vehicle_workload, final_schedule, round_num,
                   remaining_orders, solver_log, solver_gave_up>>
    /\ UNCHANGED est_vars

-----------------------------------------------------------------------------
(* get_driving_time as the threads of the server call it.  optimize is a   *)
(* def handler, so concurrent requests run in threads of one process and   *)
(* share DIST_CACHE.  A call is three steps: the lookups up to the request *)
(* to the mapping provider, the provider's answer, and the return.  A      *)
(* thread that has its value holds it until its caller goes on, so the     *)
(* values of calls made at different times stand side by side.             *)

Threads == 1..MaxThreads

\* The ordered pairs asked for: a matrix pair, a matrix pair two km apart, a
\* matrix pair with a large value, a pair whose matrix value is text, a pair
\* without a matrix value, and a pair of which one end has no coordinates
EstPairs ==
    {<<"depot", "Far">>, <<"Far", "Mid">>, <<"Mid", "Far">>,
     <<"Mid", "depot">>, <<"depot", "Mid">>, <<"depot", "Near">>}

\* Who calls: "sort" is get_order_priority (line 258), "matrix" is the
\* construction of durations in run_ortools (line 480)
Callers == {"sort", "matrix"}

\* json_res["route"]["trafast"][0]["summary"]["duration"], in milliseconds,
\* as the provider may answer for one pair at different times of the day
ProviderDurations == {45000, 200000, 1800000}

\* How the request to the provider fails: requests.get raises (timeout
\* included), status_code is not 200, code is not 0, or the payload lacks
\* the path to the duration
ProviderFailures == {"timeout", "status", "code", "malformed"}

NoCall == [start_name |-> "", end_name |-> "", caller |-> ""]

\* No thread is inside get_driving_time and DIST_CACHE is empty
NoCalls ==
    /\ DIST_CACHE = <<>>
    /\ est_pc = [t \in Threads |-> "idle"]
    /\ est_call = [t \in Threads |-> NoCall]
    /\ est_ret = [t \in Threads |-> -1]
    /\ est_answer = [t \in Threads |-> "none"]

\* The key of the call of thread t
Key(t) == <<est_call[t].start_name, est_call[t].end_name>>

\* DIST_CACHE[key] = minutes
CacheInsert(cache, key, minutes) ==
    [k \in (DOMAIN cache) \cup {key} |-> IF k = key THEN minutes ELSE cache[k]]

\* Lines 176-181: the provider answered: the minutes are cached and returned
ProviderOk(cache, a, b, duration) ==
    [ret |-> get_driving_time(<<>>, a, b, ProviderMinutes(duration)),
     cache |-> CacheInsert(cache, <<a, b>>, ProviderMinutes(duration))]

\* A failure that answers the default and caches it
ProviderFailedCachesDefault(cache, a, b) ==
    [ret |-> DEFAULT_DRIVING_TIME,
     cache |-> CacheInsert(cache, <<a, b>>, DEFAULT_DRIVING_TIME)]

\* Lines 182-193: the request failed: the haversine estimate, nothing cached
ProviderFailed(cache, a, b) ==
    [ret |-> get_driving_time(<<>>, a, b, -1), cache |-> cache]

\* The value v is returned for the call of thread t
Returns(t, v, answer) ==
    /\ est_pc' = [est_pc EXCEPT ![t] = "returned"]
    /\ est_ret' = [est_ret EXCEPT ![t] = v]
    /\ est_answer' = [est_answer EXCEPT ![t] = answer]

\* A thread calls get_driving_time(start_name, end_name)
Call(t) ==
    /\ est_pc[t] = "idle"
    /\ \E p \in EstPairs, c \in Callers :
          /\ c = "sort" => p[1] = depot
          /\ est_call' = [est_call EXCEPT
                 ![t] = [start_name |-> p[1], end_name |-> p[2], caller |-> c]]
    /\ est_pc' = [est_pc EXCEPT ![t] = "called"]
    /\ UNCHANGED <<DIST_CACHE, naver_api, est_ret, est_answer>>
    /\ UNCHANGED sched_vars

\* Lines 140-175: the cache, the matrix, the default, and then either the
\* request to the provider is sent or the haversine estimate is returned
Resolve(t) ==
    /\ est_pc[t] = "called"
    /\ LET a == est_call[t].start_name
           b == est_call[t].end_name
           tier == Tier(DIST_CACHE, a, b, naver_api)
       IN  IF tier = "provider"
           THEN /\ est_pc' = [est_pc EXCEPT ![t] = "asking"]
                /\ UNCHANGED <<est_ret, est_answer>>
           ELSE Returns(t, get_driving_time(DIST_CACHE, a, b, -1), tier)
    /\ UNCHANGED <<DIST_CACHE, naver_api, est_call>>
    /\ UNCHANGED sched_vars

\* Lines 175-181: the provider answers with a duration
ProviderAnswers(t) ==
    /\ est_pc[t] = "asking"
    /\ \E duration \in ProviderDurations :
          LET res == ProviderOk(DIST_CACHE, est_call[t].start_name,
                                est_call[t].end_name, duration)
          IN  /\ DIST_CACHE' = res.cache
              /\ Returns(t, res.ret, "provider")
    /\ UNCHANGED <<naver_api, est_call>>
    /\ UNCHANGED sched_vars

\* Lines 175-193: the request to the provider fails
ProviderFails(t) ==
    /\ est_pc[t] = "asking"
    /\ \E kind \in ProviderFailures :
          LET res == ProviderFailed(DIST_CACHE, est_call[t].start_name,
                                    est_call[t].end_name)
          IN  /\ DIST_CACHE' = res.cache
              /\ Returns(t, res.ret, kind)
    /\ UNCHANGED <<naver_api, est_call>>
    /\ UNCHANGED sched_vars

\* The caller goes on
Return(t) ==
    /\ est_pc[t] = "returned"
    /\ est_pc' = [est_pc EXCEPT ![t] = "idle"]
    /\ est_call' = [est_call EXCEPT ![t] = NoCall]
    /\ est_ret' = [est_ret EXCEPT ![t] = -1]
    /\ est_answer' = [est_answer EXCEPT ![t] = "none"]
    /\ UNCHANGED <<DIST_CACHE, naver_api>>
    /\ UNCHANGED sched_vars

-----------------------------------------------------------------------------
(* Specification                                                           *)

\* The state at the call of solve_multitrip_vrp
Called(orders, vehicles, fuel) ==
    /\ all_orders = orders
    /\ all_vehicles = vehicles
    /\ fuel_type = fuel
    /\ pc = "start"
    /\ pending_orders = <<>>
    /\ my_vehicles = <<>>
    /\ preferred_vehicle_idx = 0
    /\ vehicle_state = <<>>
    /\ vehicle_workload = <<>>
    /\ final_schedule = <<>>
    /\ round_num = 0
    /\ remaining_orders = <<>>
    /\ status = "none"
    /\ unassigned_orders = <<>>
    /\ solver_log = <<>>
    /\ solver_gave_up = FALSE
    /\ NoCalls

\* A request of at most MaxOrders orders and MaxVehicles vehicles
InitWide ==
    \E s \in NonDecreasing(Len(OrderChoices), MaxOrders),
       vs \in VehicleLists(MaxVehicles), f \in FuelTypes :
        Called([i \in 1..Len(s) |-> OrderChoices[s[i]]], vs, f)

\* The k-th order of a long day: droppable, near the depot, with a window
\* that opens and closes around the k-th single trip of a vehicle
DeepOrder(k) == Order("Near", "altteul", 50, 0, 50, 400 + 100 * k, 400 + 110 * k, 2)

\* A request with one order more than there are rounds, their windows one
\* after the other, and one vehicle
InitDeep ==
    \E v \in VehicleChoices, f \in FuelTypes :
        Called([k \in 1..(MAX_ROUND + 1) |-> DeepOrder(k)], <<v>>, f)

\* The vehicle of the end-to-end scenarios: capacity 60, of the family asked
\* for, not the dedicated vehicle
ScenarioVehicle(f) == Vehicle("7405", f, 60)

\* The orders A and B of the end-to-end scenarios
OrderA == Order("Near", "SK", 50, 0, 50, 420, 600, 1)

OrderB == Order("Near", "SK", 80, 0, 80, 540, 1080, 2)

\* An order that opens late in the day: served when it opens, the vehicle is
\* back at the depot before_close minutes before the close (after it, when
\* before_close is negative)
LateOrder(before_close) ==
    Order("Near", "SK", 50, 0, 50,
          WAREHOUSE_CLOSE_TIME - DEFAULT_DRIVING_TIME - before_close,
          DEFAULT_END_MIN, 2)

\* The end-to-end scenario of A and B with one vehicle of capacity 60; the
\* dedicated vehicle alone with two altteul orders and one of another brand;
\* a long day with an order nobody can reach in time; and two orders late
\* in the day, back a minute before the close and ten minutes after it
InitScenario ==
    \E f \in FuelTypes :
        \/ Called(<<OrderA, OrderB>>, <<ScenarioVehicle(f)>>, f)
        \/ Called(<<OrderChoices[2], OrderChoices[2], OrderChoices[3]>>,
                  <<Vehicle("7408", "gasoline", 60)>>, f)
        \/ Called(<<OrderChoices[6]>> \o [k \in 1..MAX_ROUND |-> DeepOrder(k)],
                  <<ScenarioVehicle(f)>>, f)
        \/ Called(<<LateOrder(1), LateOrder(-10)>>, <<ScenarioVehicle(f)>>, f)

\* solve_multitrip_vrp is called in a process without credentials
Init == (InitWide \/ InitDeep \/ InitScenario) /\ naver_api = FALSE

Next ==
    \/ Partition
    \/ LoopExit
    \/ PreferredPass
    \/ NoPreferredPass
    \/ GeneralNoVehicle
    \/ GeneralPass
    \/ Finalize

Spec == Init /\ [][Next]_vars

\* The server process with or without credentials, before any request
InitEst ==
    /\ Called(<<>>, <<>>, "gasoline")
    /\ naver_api \in BOOLEAN

NextEst ==
    \E t \in Threads :
        \/ Call(t)
        \/ Resolve(t)
        \/ ProviderAnswers(t)
        \/ ProviderFails(t)
        \/ Return(t)

SpecEst == InitEst /\ [][NextEst]_vars

-----------------------------------------------------------------------------
(* What a result shows                                                     *)

Routes == Range(final_schedule)

\* The stops of a route other than the depot at its two ends
Stops(r) == {r.path[j] : j \in 2..(Len(r.path) - 1)}

\* The orders that are a stop of some route of the final schedule
DeliveredOrders == UNION {{st.order : st \in Stops(r)} : r \in Routes}

Unassigned == Range(unassigned_orders)

Returned == pc = "done"

Succeeded == pc = "done" /\ status = "success"

\* The vehicle of the request with the given id (ids are distinct)
VehicleOf(id) == CHOOSE v \in Range(all_vehicles) : v.id = id

\* The positions in final_schedule of the routes of vehicle v of my_vehicles
RoutesOf(v) == {n \in 1..Len(final_schedule) : final_schedule[n].real_idx = v}

LastRouteOf(v) ==
    final_schedule[CHOOSE n \in RoutesOf(v) : \A m \in RoutesOf(v) : m <= n]

\* An order that one vehicle of the family could serve alone on its first
\* trip of the day: it fits the vehicle, the vehicle may serve its brand,
\* and leaving at DRIVER_START_TIME + LOADING_TIME it is served within its
\* window and before the close.
ServableAlone(i) ==
    \E v \in 1..Len(my_vehicles) :
        /\ Demand(i) <= MyVehicle(v).capacity
        /\ (v = preferred_vehicle_idx => IsAltteul(i))
        /\ TimeOK(<<i>>, DRIVER_START_TIME + LOADING_TIME)
        /\ StopTimes(<<i>>, depot, DRIVER_START_TIME + LOADING_TIME)[1]
              < WAREHOUSE_CLOSE_TIME

-----------------------------------------------------------------------------
(* C1: every order with priority 1 and positive demand whose window is     *)
(* feasible is a stop of some route of the final schedule and is not left  *)
(* unassigned, whatever else is pending.  Stated in its most favourable    *)
(* reading: the order fits a vehicle that may serve it, and no solver call *)
(* gave up on a solvable problem.                                          *)
C1_MandatoryFeasibleServed ==
    (Succeeded /\ ~solver_gave_up) =>
        \A i \in 1..Len(all_orders) :
            (Mandatory(i) /\ Demand(i) > 0 /\ ServableAlone(i)) =>
                (i \in DeliveredOrders /\ i \notin Unassigned)

-----------------------------------------------------------------------------
(* C2: the total load of every route of the final schedule is the sum of   *)
(* the quantities of its stops and is at most the capacity of the vehicle  *)
(* named by its vehicle_id, in both passes and every round.                *)
C2_LoadWithinCapacity ==
    \A n \in 1..Len(final_schedule) :
        LET r == final_schedule[n]
        IN  /\ r.total_load = SumSeq([j \in 1..Len(r.path) |-> r.path[j].load])
            /\ r.total_load <= VehicleOf(r.vehicle_id).capacity

\* A route of the general pass whose vehicle is not at its internal index in
\* my_vehicles, beside a route of the dedicated pass
C2_Witness ==
    /\ \E r \in Routes : /\ r.pass = "general"
                         /\ r.real_idx # r.internal_idx
                         /\ r.total_load > 0
    /\ \E r \in Routes : r.pass = "preferred"

-----------------------------------------------------------------------------
(* C3 as claimed: every stop other than the depot has a time t with        *)
(* start_min <= t < end_min for its order (a half-open window).            *)
C3_HalfOpenWindow ==
    \A r \in Routes : \A st \in Stops(r) :
        /\ all_orders[st.order].start_min <= st.time
        /\ st.time < all_orders[st.order].end_min

(* C3 as amended: every stop other than the depot has a time t with        *)
(* start_min <= t <= end_min for its order (the window is closed).         *)
C3_ClosedWindow ==
    \A r \in Routes : \A st \in Stops(r) :
        /\ all_orders[st.order].start_min <= st.time
        /\ st.time <= all_orders[st.order].end_min

\* A stop served exactly when its window closes
C3_Witness ==
    \E r \in Routes : \E st \in Stops(r) :
        st.time = all_orders[st.order].end_min

-----------------------------------------------------------------------------
(* C4: no two routes of the final schedule have the same vehicle_id and    *)
(* the same round, the dedicated vehicle included.                         *)
C4_OneRoutePerVehiclePerRound ==
    \A n, m \in 1..Len(final_schedule) :
        (n # m /\ final_schedule[n].vehicle_id = final_schedule[m].vehicle_id)
            => final_schedule[n].round # final_schedule[m].round

-----------------------------------------------------------------------------
(* C5 as claimed: at the head of the next round, the stored vehicle_state  *)
(* of a vehicle used in the round before equals the completion time of     *)
(* that route plus LOADING_TIME.                                           *)
C5_StoredIsCompletionPlusReload ==
    pc = "round" =>
        \A v \in 1..Len(my_vehicles) :
            (RoutesOf(v) # {} /\ LastRouteOf(v).round = round_num - 1) =>
                vehicle_state[v] = LastRouteOf(v).end_time + LOADING_TIME

(* C5 as amended: the stored vehicle_state of a vehicle that was used is   *)
(* the completion time of its last route (DRIVER_START_TIME if it was      *)
(* never used); the reload is added when a start time is computed, so a    *)
(* later route of the vehicle starts no earlier than the completion of an  *)
(* earlier one plus LOADING_TIME.                                          *)
C5_StoredIsCompletion ==
    /\ \A v \in 1..Len(vehicle_state) :
          vehicle_state[v] = IF RoutesOf(v) = {} THEN DRIVER_START_TIME
                             ELSE LastRouteOf(v).end_time
    /\ \A n, m \in 1..Len(final_schedule) :
          (n < m /\ final_schedule[n].real_idx = final_schedule[m].real_idx)
              => final_schedule[m].start_time
                    >= final_schedule[n].end_time + LOADING_TIME

\* At the head of a round, a vehicle used in the round before and used
\* again earlier still
C5_Witness ==
    /\ pc = "round"
    /\ \E v \in 1..Len(my_vehicles) :
          /\ Cardinality(RoutesOf(v)) >= 2
          /\ LastRouteOf(v).round = round_num - 1

-----------------------------------------------------------------------------
(* C6: no start time handed to the solver, and no start_time of a route of *)
(* the final schedule, lies inside the lunch window                        *)
(* [LUNCH_START, LUNCH_START + LUNCH_DURATION): such a start is pushed to  *)
(* the end of the window.                                                  *)
InLunch(t) == LUNCH_START <= t /\ t < LUNCH_START + LUNCH_DURATION

C6_NoStartInLunch ==
    /\ \A n \in 1..Len(solver_log) :
          \A k \in 1..Len(solver_log[n].starts) : ~InLunch(solver_log[n].starts[k])
    /\ \A r \in Routes : ~InLunch(r.start_time)

-----------------------------------------------------------------------------
(* C7: the loop runs at most MAX_ROUND = 5 rounds: every route is tagged   *)
(* with a round in 1..5, every solver call belongs to a round in 1..5, no  *)
(* round beyond the fifth is started, and at most two solver calls are     *)
(* made per round.                                                         *)
C7_AtMostFiveRounds ==
    /\ \A r \in Routes : r.round \in 1..MAX_ROUND
    /\ \A n \in 1..Len(solver_log) : solver_log[n].round \in 1..MAX_ROUND
    /\ pc = "general" => round_num \in 1..MAX_ROUND
    /\ round_num <= MAX_ROUND + 1
    /\ Len(solver_log) <= 2 * MAX_ROUND

\* The call has returned after a fifth round that served an order, with an
\* order still pending and a vehicle back before the close
C7_Witness ==
    /\ Succeeded
    /\ round_num = MAX_ROUND + 1
    /\ \E r \in Routes : r.round = MAX_ROUND
    /\ unassigned_orders # <<>>
    /\ AvailableIndices # <<>>

-----------------------------------------------------------------------------
(* C8: in a result with status "success" no order is both a stop of a      *)
(* route and in unassigned_orders, and total_delivered plus                *)
(* unassigned_total_load is the total demand of the orders with demand.    *)
(* Stated for the runs in which no solver call gave up on a solvable       *)
(* problem.                                                                *)
TotalDelivered == SumSeq([n \in 1..Len(final_schedule) |-> final_schedule[n].total_load])

UnassignedTotalLoad ==
    SumSeq([n \in 1..Len(unassigned_orders) |-> Demand(unassigned_orders[n])])

TotalDemand == SumSeq([i \in 1..Len(all_orders) |-> Demand(i)])

C8_ServedNotUnassigned ==
    (Succeeded /\ ~solver_gave_up) =>
        /\ DeliveredOrders \cap Unassigned = {}
        /\ TotalDelivered + UnassignedTotalLoad = TotalDemand

-----------------------------------------------------------------------------
(* C9: no order with demand is lost: while the loop runs every such order  *)
(* is a stop of a route or pending, and in a result with status "success"  *)
(* every such order that is not a stop of a route is in unassigned_orders. *)
C9_UnservedIsUnassigned ==
    \A i \in 1..Len(all_orders) :
        (Demand(i) > 0 /\ i \notin DeliveredOrders) =>
            /\ pc \in {"round", "general", "finalize"} => i \in Range(pending_orders)
            /\ Succeeded => i \in Unassigned

\* A result after a dedicated pass and a general pass that both served an
\* order, with an order left unserved
C9_Witness ==
    /\ Succeeded
    /\ \E r \in Routes : r.pass = "preferred"
    /\ \E r \in Routes : r.pass = "general"
    /\ \E i \in 1..Len(all_orders) :
          Demand(i) > 0 /\ i \notin DeliveredOrders /\ i \in Unassigned

-----------------------------------------------------------------------------
(* C10: the call returns "skipped", with no route and no solver call, if   *)
(* and only if no order has demand for the family or no vehicle is of the  *)
(* family; otherwise it returns "success"; and no vehicle of another       *)
(* family is ever handed to the solver.                                    *)
NoDemand == \A i \in 1..Len(all_orders) : Demand(i) <= 0

NoFamilyVehicle == \A i \in 1..Len(all_vehicles) : all_vehicles[i].fuel # fuel_type

C10_SkippedIffEmpty ==
    /\ Returned =>
          /\ status \in {"skipped", "success"}
          /\ status = "skipped" <=> (NoDemand \/ NoFamilyVehicle)
          /\ status = "skipped" => (final_schedule = <<>> /\ solver_log = <<>>)
    /\ \A n \in 1..Len(solver_log) :
          \A k \in 1..Len(solver_log[n].vehicles) :
              MyVehicle(solver_log[n].vehicles[k]).fuel = fuel_type

\* Skipped although an order has demand for the family: the request has
\* vehicles, but none of the family
C10_Witness ==
    /\ Returned
    /\ status = "skipped"
    /\ ~NoDemand
    /\ all_vehicles # <<>>

-----------------------------------------------------------------------------
(* C11: a droppable order (priority >= 2) with demand whose window closes  *)
(* before any vehicle can have travelled to it and unloaded is never a     *)
(* stop of a route; when the call returns and the family has a vehicle,    *)
(* the status is "success" and the order is in unassigned_orders with its  *)
(* priority, whether the loop stops early or runs all its rounds.          *)

\* The entry of skipped_list for an order (lines 419-438)
OrderInfo(i) ==
    [order |-> i, name |-> all_orders[i].name, brand |-> all_orders[i].brand,
     total |-> Demand(i), start_min |-> all_orders[i].start_min,
     end_min |-> all_orders[i].end_min, priority |-> all_orders[i].priority]

SkippedList ==
    [n \in 1..Len(unassigned_orders) |-> OrderInfo(unassigned_orders[n])]

\* The shortest last leg to the order from the depot or from another order
MinTravelTo(i) ==
    LET legs == {DrivingTime(l, all_orders[i].name) :
                    l \in {depot} \cup {all_orders[j].name : j \in 1..Len(all_orders)}}
    IN  CHOOSE m \in legs : \A x \in legs : m <= x

\* No vehicle can be at the order within its window: the first departure of
\* the day is at DRIVER_START_TIME + LOADING_TIME
Unreachable(i) ==
    all_orders[i].end_min
        < DRIVER_START_TIME + LOADING_TIME + MinTravelTo(i) + Service

DroppableUnreachable(i) ==
    all_orders[i].priority >= 2 /\ Demand(i) > 0 /\ Unreachable(i)

C11_UnreachableDroppableUnassigned ==
    \A i \in 1..Len(all_orders) :
        DroppableUnreachable(i) =>
            /\ i \notin DeliveredOrders
            /\ (Returned /\ ~NoFamilyVehicle) =>
                  /\ status = "success"
                  /\ \E n \in 1..Len(unassigned_orders) :
                        /\ SkippedList[n].order = i
                        /\ SkippedList[n].priority = all_orders[i].priority

\* The call has returned after five rounds that each served an order, with
\* an unreachable droppable order reported
C11_Witness ==
    /\ Succeeded
    /\ round_num = MAX_ROUND + 1
    /\ \A k \in 1..MAX_ROUND : \E r \in Routes : r.round = k
    /\ \E i \in Unassigned : DroppableUnreachable(i)

-----------------------------------------------------------------------------
(* C12 as claimed: with one vehicle of capacity 60 of the family and the   *)
(* orders A (50, window 420-600, priority 1) and B (80, window 540-1080,   *)
(* priority 2), the round-1 route delivers A, a round-2 route of the same  *)
(* vehicle, leaving after the reload, delivers B, and no order is left     *)
(* unassigned.  Stated for the runs in which no solver call gave up.       *)
InScenarioAB ==
    /\ all_orders = <<OrderA, OrderB>>
    /\ all_vehicles = <<ScenarioVehicle(fuel_type)>>

\* The orders a route delivers
OrdersOf(r) == {st.order : st \in Stops(r)}

C12_TwoRoundsDeliverBoth ==
    (InScenarioAB /\ Succeeded /\ ~solver_gave_up) =>
        /\ \E r1, r2 \in Routes :
              /\ r1.round = 1 /\ 1 \in OrdersOf(r1)
              /\ r2.round = 2 /\ 2 \in OrdersOf(r2)
              /\ r2.vehicle_id = r1.vehicle_id
              /\ r2.start_time >= r1.end_time + LOADING_TIME
        /\ Unassigned = {}

(* C12 as amended: in that scenario B, whose quantity exceeds the capacity *)
(* of the vehicle, is never delivered and is reported unassigned; there is *)
(* at most one route, of round 1, and it delivers A alone; A is delivered  *)
(* and not reported unassigned when no solver call gave up.                *)
C12_OnlyAFits ==
    InScenarioAB =>
        /\ 2 \notin DeliveredOrders
        /\ Len(final_schedule) <= 1
        /\ \A r \in Routes : r.round = 1 /\ OrdersOf(r) = {1}
        /\ Succeeded =>
              /\ 2 \in Unassigned
              /\ ~solver_gave_up => (1 \in DeliveredOrders /\ 1 \notin Unassigned)

\* The scenario has returned after its second round: A delivered, B reported
C12_Witness ==
    /\ InScenarioAB
    /\ Succeeded
    /\ round_num = 2
    /\ 1 \in DeliveredOrders
    /\ 2 \in Unassigned

-----------------------------------------------------------------------------
(* C13: every value get_driving_time returns is at least MIN_DRIVING_TIME  *)
(* = 5 minutes, whatever tier resolved the call: the cache, the matrix,    *)
(* the mapping provider, the haversine estimate or the default.            *)
HasReturned(t) == est_pc[t] = "returned"

C13_AtLeastFloor ==
    \A t \in Threads : HasReturned(t) => est_ret[t] >= MIN_DRIVING_TIME

-----------------------------------------------------------------------------
(* C14: two calls of get_driving_time with the same ordered pair return    *)
(* the same value, whenever they are made and whatever the mapping         *)
(* provider answers or fails to answer in between.                         *)
C14_SameValueForSamePair ==
    \A t, u \in Threads :
        (HasReturned(t) /\ HasReturned(u) /\ Key(t) = Key(u))
            => est_ret[t] = est_ret[u]

-----------------------------------------------------------------------------
(* C15: when the request to the mapping provider fails in any way, the     *)
(* call returns the haversine estimate and DIST_CACHE is left as it was;   *)
(* when the pair has no usable matrix value and one of its ends has no     *)
(* coordinates, the call returns the default 20 at once, without a request *)
(* to the provider.                                                        *)
C15_FailureFallsBack ==
    [][\A t \in Threads :
          LET a == est_call[t].start_name
              b == est_call[t].end_name
          IN  /\ (/\ est_pc[t] = "asking"
                  /\ est_pc'[t] = "returned"
                  /\ est_answer'[t] \in ProviderFailures)
                    => /\ est_ret'[t] = HaversineMinutes(a, b)
                       /\ DIST_CACHE' = DIST_CACHE
              /\ (/\ est_pc[t] = "called"
                  /\ est_pc'[t] # "called"
                  /\ ~MatrixUsable(a, b)
                  /\ (a \notin NODE_INFO \/ b \notin NODE_INFO))
                    => /\ est_pc'[t] = "returned"
                       /\ est_ret'[t] = DEFAULT_DRIVING_TIME
                       /\ est_answer'[t] = "default"
                       /\ DIST_CACHE' = DIST_CACHE]_vars

\* One call has returned after a malformed answer for the pair whose matrix
\* value is text while the cache holds another call's value for that pair,
\* and another call has returned the default
C15_Witness ==
    \E t, u \in Threads :
        /\ HasReturned(t)
        /\ est_answer[t] = "malformed"
        /\ Key(t) \in MATRIX_TEXT
        /\ Key(t) \in DOMAIN DIST_CACHE
        /\ HasReturned(u)
        /\ est_answer[u] = "default"

-----------------------------------------------------------------------------
(* C16: no request to the mapping provider is made for a call that comes   *)
(* from the construction of the travel-time matrix or from the sort of the *)
(* orders by distance from the depot.                                      *)
C16_NoProviderCallInBulk ==
    \A t \in Threads :
        est_call[t].caller \in {"matrix", "sort"} => est_pc[t] # "asking"

-----------------------------------------------------------------------------
(* C17: DIST_CACHE is append-only under any interleaving of the requests:  *)
(* a pair that has a cached value keeps that very value in every step.     *)
C17_CacheAppendOnly ==
    [][\A k \in DOMAIN DIST_CACHE :
          k \in DOMAIN DIST_CACHE' /\ DIST_CACHE'[k] = DIST_CACHE[k]]_vars

-----------------------------------------------------------------------------
(* C18: a call resolved by the matrix returns the stored value converted   *)
(* to minutes (times 1.5) when the value is below the threshold, and the   *)
(* stored value itself when it is at or above the threshold, at least      *)
(* MIN_DRIVING_TIME in both cases.                                         *)
C18_LargeEntryIsMinutes ==
    \A t \in Threads :
        (HasReturned(t) /\ est_answer[t] = "matrix") =>
            LET v == MATRIX_DATA[Key(t)]
            IN  est_ret[t] = IF v < MATRIX_MINUTES_THRESHOLD
                             THEN Max(MIN_DRIVING_TIME, (v * 3) \div 2)
                             ELSE Max(MIN_DRIVING_TIME, v)

-----------------------------------------------------------------------------
(* C19: the loop does not stop while orders are pending, rounds remain and *)
(* a vehicle that could serve some pending order is still available: when  *)
(* the loop has ended, the pending orders are all delivered, or no vehicle *)
(* is back before the close, or the rounds are used up, or the last        *)
(* general solver call of the round returned no routes, or no available    *)
(* vehicle could serve any pending order.  Stated for the runs in which    *)
(* every solver call that could visit an order returned a route.           *)
SolverDidItsBest ==
    \A n \in 1..Len(solver_log) : solver_log[n].could => solver_log[n].nroutes > 0

\* The orders still to be delivered
TrulyPending == Range(pending_orders) \ DeliveredOrders

\* Vehicle v of my_vehicles, leaving after its reload, could serve order i
\* alone: it fits, the dedicated vehicle serves altteul only, the window and
\* the day allow it.
CouldServe(v, i) ==
    /\ Demand(i) <= MyVehicle(v).capacity
    /\ (v = preferred_vehicle_idx => IsAltteul(i))
    /\ TimeOK(<<i>>, StartTime(v))

\* The no-progress guard has fired in this round
NoProgressFired ==
    /\ solver_log # <<>>
    /\ solver_log[Len(solver_log)].pass = "general"
    /\ solver_log[Len(solver_log)].round = round_num
    /\ solver_log[Len(solver_log)].nroutes = 0

C19_LoopStopsOnlyWhenStuck ==
    (pc = "finalize" /\ SolverDidItsBest) =>
        \/ TrulyPending = {}
        \/ AvailableIndices = <<>>
        \/ RoundLimitReached(round_num)
        \/ NoProgressFired
        \/ ~\E v \in Range(AvailableIndices), i \in TrulyPending : CouldServe(v, i)

-----------------------------------------------------------------------------
(* C20: when run_ortools returns no routes for the general pass of a       *)
(* round, in that step the loop ends and no vehicle's state or workload,   *)
(* no route and no pending order changes; after the loop no solver call is *)
(* made and the fleet is left as it is; and the call returns "success"     *)
(* with the pending orders of that round as unassigned_orders.             *)
C20_NoSolutionEndsQuietly ==
    [][/\ (/\ pc = "general"
           /\ Len(solver_log') = Len(solver_log) + 1
           /\ solver_log'[Len(solver_log')].nroutes = 0)
             => /\ pc' = "finalize"
                /\ UNCHANGED <<vehicle_state, vehicle_workload,
                               final_schedule, pending_orders>>
       /\ pc \in {"finalize", "done"}
             => UNCHANGED <<solver_log, vehicle_state, vehicle_workload,
                            final_schedule, pending_orders>>
       /\ (pc = "finalize" /\ pc' = "done")
             => /\ status' = "success"
                /\ unassigned_orders' = pending_orders]_vars

\* The call has returned after the solver found nothing, in a round after
\* the first, for a general pass that had a solution visiting an order
C20_Witness ==
    /\ Succeeded
    /\ NoProgressFired
    /\ round_num >= 2
    /\ ~solver_log[Len(solver_log)].found
    /\ solver_log[Len(solver_log)].could
    /\ final_schedule # <<>>
    /\ unassigned_orders # <<>>

-----------------------------------------------------------------------------
(* C21 as claimed: every vehicle handed to the solver, in the dedicated    *)
(* pass and in the general pass, has at that moment a vehicle_state        *)
(* strictly before WAREHOUSE_CLOSE_TIME minus a safety margin.             *)

\* vehicle_state, at call n of the solver, of the k-th vehicle handed to it
OfferedState(n, k) == solver_log[n].state[solver_log[n].vehicles[k]]

C21_OfferedBeforeCloseLessMargin ==
    \A n \in 1..Len(solver_log) :
        \A k \in 1..Len(solver_log[n].vehicles) :
            OfferedState(n, k) < WAREHOUSE_CLOSE_TIME - SAFETY_MARGIN

(* C21 as amended: every vehicle handed to the solver has at that moment a *)
(* vehicle_state (its arrival at the depot) strictly before                *)
(* WAREHOUSE_CLOSE_TIME, with no margin; and when no vehicle is back       *)
(* before the close at the head of a round, the loop ends without a solver *)
(* call.                                                                   *)
C21_OfferedBeforeClose ==
    [][/\ \A n \in 1..Len(solver_log') :
             \A k \in 1..Len(solver_log'[n].vehicles) :
                 solver_log'[n].state[solver_log'[n].vehicles[k]]
                     < WAREHOUSE_CLOSE_TIME
       /\ (pc = "round" /\ AvailableIndices = <<>>)
             => (pc' = "finalize" /\ solver_log' = solver_log)]_vars

\* A vehicle back one minute before the close was handed to the solver and
\* has left on a trip after the close
C21_Witness ==
    /\ \E n \in 1..Len(solver_log) :
          \E k \in 1..Len(solver_log[n].vehicles) :
              OfferedState(n, k) = WAREHOUSE_CLOSE_TIME - 1
    /\ \E r \in Routes : r.start_time > WAREHOUSE_CLOSE_TIME

-----------------------------------------------------------------------------
(* C22: in every general-pass call of the solver the vehicles are handed   *)
(* over in non-decreasing order of vehicle_workload, equal workloads in    *)
(* the order of their index; and the workload of a vehicle at that moment  *)
(* is the sum of total_load of its routes already in final_schedule, a     *)
(* route of the dedicated pass of the same round included.                 *)

\* The sum of total_load of the routes of vehicle v among the first m routes
\* of final_schedule
LoadOfFirst(m, v) ==
    SumSeq([j \in 1..m |-> IF final_schedule[j].real_idx = v
                           THEN final_schedule[j].total_load ELSE 0])

C22_GeneralPassByWorkload ==
    \A n \in 1..Len(solver_log) :
        LET e == solver_log[n]
        IN  e.pass = "general" =>
              /\ \A j, k \in 1..Len(e.vehicles) :
                    j < k =>
                      \/ e.workload[e.vehicles[j]] < e.workload[e.vehicles[k]]
                      \/ /\ e.workload[e.vehicles[j]] = e.workload[e.vehicles[k]]
                         /\ e.vehicles[j] < e.vehicles[k]
              /\ \A v \in 1..Len(my_vehicles) :
                    e.workload[v] = LoadOfFirst(e.scheduled, v)

\* A general pass whose first vehicle comes after its second in my_vehicles,
\* the second carrying the load of the dedicated pass of the same round
C22_Witness ==
    \E n \in 1..Len(solver_log) :
        LET e == solver_log[n]
        IN  /\ e.pass = "general"
            /\ Len(e.vehicles) = 2
            /\ e.vehicles[1] > e.vehicles[2]
            /\ e.scheduled > 0
            /\ final_schedule[e.scheduled].pass = "preferred"
            /\ final_schedule[e.scheduled].round = e.round
            /\ final_schedule[e.scheduled].real_idx = e.vehicles[2]

-----------------------------------------------------------------------------
(* C23: in every step of a round, a vehicle that gets no route with a stop *)
(* between the two depot entries keeps its vehicle_state and its           *)
(* vehicle_workload, whether it was not available, excluded, or handed to  *)
(* the solver and left unused; and every route appended has such a stop.   *)
C23_UnusedVehicleUnchanged ==
    [][(pc = "round" \/ pc = "general") =>
          (LET new == (Len(final_schedule) + 1)..Len(final_schedule')
           IN  /\ \A m \in new : Len(final_schedule'[m].path) > 2
               /\ \A v \in 1..Len(my_vehicles) :
                     (~\E m \in new : final_schedule'[m].real_idx = v)
                         => (/\ vehicle_state'[v] = vehicle_state[v]
                             /\ vehicle_workload'[v] = vehicle_workload[v]))]_vars

\* A general pass of two vehicles returned one route; the vehicle left
\* unused has no route at all and is as it was at the start of the day
C23_Witness ==
    \E n \in 1..Len(solver_log) :
        LET e == solver_log[n]
        IN  /\ e.pass = "general"
            /\ Len(e.vehicles) = 2
            /\ e.nroutes = 1
            /\ \E v \in Range(e.vehicles) :
                  /\ RoutesOf(v) = {}
                  /\ vehicle_state[v] = DRIVER_START_TIME
                  /\ vehicle_workload[v] = 0
            /\ Len(final_schedule) > e.scheduled

-----------------------------------------------------------------------------
(* C24: in the gasoline family, every stop of every route whose vehicle_id *)
(* is that of the dedicated vehicle is an order of the brand altteul; a    *)
(* dedicated pass is given altteul orders only; and a general pass whose   *)
(* orders include another brand is not given the dedicated vehicle.        *)
C24_DedicatedVehicleServesAltteulOnly ==
    fuel_type = "gasoline" =>
        /\ \A r \in Routes :
              r.vehicle_id = "7408" =>
                  \A st \in Stops(r) : IsAltteul(st.order)
        /\ \A n \in 1..Len(solver_log) :
              LET e == solver_log[n]
              IN  /\ e.pass = "preferred" =>
                        \A j \in 1..Len(e.orders) : IsAltteul(e.orders[j])
                  /\ (/\ e.pass = "general"
                      /\ \E j \in 1..Len(e.orders) : IsNotAltteul(e.orders[j]))
                        => \A k \in 1..Len(e.vehicles) :
                               MyVehicle(e.vehicles[k]).id # "7408"

\* A gasoline day with the dedicated vehicle and another one: the dedicated
\* vehicle has a route, and an order of another brand is a stop of a route
\* of the other vehicle, from a general pass the dedicated vehicle was
\* available for and left out of
C24_Witness ==
    /\ fuel_type = "gasoline"
    /\ \E r \in Routes : r.vehicle_id = "7408"
    /\ \E r \in Routes :
          /\ r.vehicle_id # "7408"
          /\ \E st \in Stops(r) : IsNotAltteul(st.order)
    /\ \E n \in 1..Len(solver_log) :
          LET e == solver_log[n]
          IN  /\ e.pass = "general"
              /\ e.nroutes > 0
              /\ e.state[preferred_vehicle_idx] < WAREHOUSE_CLOSE_TIME
              /\ \A k \in 1..Len(e.vehicles) :
                    e.vehicles[k] # preferred_vehicle_idx

-----------------------------------------------------------------------------
(* C25: at every moment of a family's run each order is a stop of at most  *)
(* one route of final_schedule, at one place of its path; and no order     *)
(* handed to run_ortools, in either pass, is a stop of a route that was    *)
(* appended before that call.                                              *)
C25_OrderServedOnce ==
    /\ \A n, m \in 1..Len(final_schedule) :
          \A j \in 2..(Len(final_schedule[n].path) - 1),
             k \in 2..(Len(final_schedule[m].path) - 1) :
              final_schedule[n].path[j].order = final_schedule[m].path[k].order
                  => (n = m /\ j = k)
    /\ \A n \in 1..Len(solver_log) :
          LET e == solver_log[n]
          IN  \A j \in 1..Len(e.orders), m \in 1..e.scheduled :
                  \A st \in Stops(final_schedule[m]) : st.order # e.orders[j]

\* A general pass that followed a dedicated pass with a route in its own
\* round, and a general pass of a later round, were each handed orders and
\* returned routes
C25_Witness ==
    /\ \E n \in 1..Len(solver_log) :
          LET e == solver_log[n]
          IN  /\ e.pass = "general"
              /\ e.nroutes > 0
              /\ e.scheduled > 0
              /\ final_schedule[e.scheduled].pass = "preferred"
              /\ final_schedule[e.scheduled].round = e.round
    /\ \E n \in 1..Len(solver_log) :
          LET e == solver_log[n]
          IN  /\ e.pass = "general"
              /\ e.round > 1
              /\ e.nroutes > 0
              /\ e.scheduled > 0

-----------------------------------------------------------------------------
(* C26: the trips of a vehicle never overlap: every route ends after it    *)
(* starts, the first route of a vehicle starts at DRIVER_START_TIME +      *)
(* LOADING_TIME, and of two consecutive routes of a vehicle in             *)
(* final_schedule the later starts exactly LOADING_TIME after the end of   *)
(* the earlier; and in every step the vehicle_state of a vehicle never     *)
(* decreases, and strictly increases when the step appends a route of it.  *)
C26_TripsNeverOverlap ==
    /\ [](\A v \in 1..Len(my_vehicles) :
            \A m \in RoutesOf(v) :
                LET earlier == {n \in RoutesOf(v) : n < m}
                IN  /\ final_schedule[m].end_time > final_schedule[m].start_time
                    /\ earlier = {} =>
                          final_schedule[m].start_time
                              = DRIVER_START_TIME + LOADING_TIME
                    /\ \A n \in earlier :
                          (\A k \in earlier : k <= n) =>
                              final_schedule[m].start_time
                                  = final_schedule[n].end_time + LOADING_TIME)
    /\ [][\A v \in 1..Len(my_vehicles) :
            /\ vehicle_state'[v] >= vehicle_state[v]
            /\ (\E m \in (Len(final_schedule) + 1)..Len(final_schedule') :
                    final_schedule'[m].real_idx = v)
                  => vehicle_state'[v] > vehicle_state[v]]_vars

\* The call has returned with at least three routes of one vehicle, two of
\* them of the same round
C26_Witness ==
    /\ pc = "done"
    /\ \E v \in 1..Len(my_vehicles) :
          /\ Cardinality(RoutesOf(v)) >= 3
          /\ \E n, m \in RoutesOf(v) :
                n # m /\ final_schedule[n].round = final_schedule[m].round

=============================================================================
